---- MODULE Spec2Model ----
(***************************************************************************)
(* A model of the two scripts of the repository:                           *)
(*                                                                         *)
(*   xantaken_diff.py  build_report: load two snapshot CSVs, resolve their *)
(*                     dates, outer-merge them on user_id, derive the      *)
(*                     diff / min / max / average columns, classify each   *)
(*                     row and sort the report        (SpecDiff)           *)
(*   xans.py           main / torn_get: fetch the member list and each     *)
(*                     member's xantaken with a bounded retry loop, then   *)
(*                     write the snapshot CSV          (SpecFetch)         *)
(*                                                                         *)
(* Values of the data frames are tagged records, so that a missing value   *)
(* (pandas NaN / None) is a value of its own and never a number.           *)
(***************************************************************************)
EXTENDS Integers, Sequences, FiniteSets, TLC

VARIABLES
    \* ---- xantaken_diff.build_report ----
    dpc,            \* position in build_report
    df_a, df_b,     \* the loaded snapshots (lines 82-83)
    date_a, date_b, \* the resolved reference dates (lines 85-86)
    start_date, end_date, days_between,   \* lines 92-97
    merged,         \* the merged frame with its derived columns (lines 111-149)
    report,         \* the returned report: its columns and its sorted rows
    derror,         \* the exception build_report raised, if any
    \* ---- xans.main / torn_get ----
    fpc,            \* position in main
    call,           \* which API call torn_get is serving
    attempt,        \* torn_get's loop variable (line 49)
    backoff,        \* torn_get's backoff, as the exponent k of 2.0 * 1.7^k
    last_err,       \* torn_get's last_err (line 47)
    resp,           \* the server's answer to the latest request
    requests,       \* requests sent by the current torn_get call
    tg,             \* the current torn_get call: running, returned, raised
    exc,            \* the exception the current torn_get call raised
    members,        \* the member list main iterates over (line 143)
    idx,            \* index of the member being processed (line 146)
    rows,           \* main's rows (line 145)
    stat_failed,    \* main's err of each processed member ("" when none)
    csv,            \* the CSV file: whether written, and its rows
    ferror          \* the exception that left main, if any

dvars == <<dpc, df_a, df_b, date_a, date_b, start_date, end_date, days_between,
           merged, report, derror>>
fvars == <<fpc, call, attempt, backoff, last_err, resp, requests, tg, exc,
           members, idx, rows, stat_failed, csv, ferror>>
vars == <<dvars, fvars>>

(***************************************************************************)
(* Bounds of the model.                                                    *)
(***************************************************************************)
MaxRows == 2        \* rows read from the two snapshot files together
MaxXan == 2         \* largest xantaken value in a snapshot
MaxDay == 2         \* dates are day numbers 0..MaxDay
MaxPos == 1         \* positions are ranks 1..MaxPos
MaxMembers == 2     \* members the faction endpoint returns

\* The user ids that occur in the snapshots: one of one digit and one of two,
\* so that the order of the ids as strings differs from their order as numbers.
UserIds == {2, 10}

(***************************************************************************)
(* Cells and values.                                                       *)
(***************************************************************************)
\* A missing value: an empty CSV cell, pandas NaN, Python None.
NaN == [t |-> "nan", v |-> 0]
\* A number.
Num(n) == [t |-> "num", v |-> n]
\* A CSV cell holding text that is no number (and no date).
Text == [t |-> "text", v |-> 0]

\* pd.isna / Series.dropna on a value
IsNa(x) == x.t = "nan"

\* pd.to_numeric(..., errors="coerce"): text that is no number becomes NaN.
ToNumeric(x) == IF x.t = "num" THEN x ELSE NaN

\* astype(str) on a user_id: its decimal digits, most significant first.
RECURSIVE Str(_)
Str(n) == IF n < 10 THEN <<n>> ELSE Str(n \div 10) \o <<n % 10>>

\* Python's order on str: lexicographic on the characters.
RECURSIVE StrLess(_, _)
StrLess(s, t) ==
    IF t = <<>> THEN FALSE
    ELSE IF s = <<>> THEN TRUE
    ELSE IF Head(s) # Head(t) THEN Head(s) < Head(t)
    ELSE StrLess(Tail(s), Tail(t))

(***************************************************************************)
(* The snapshot files.                                                     *)
(***************************************************************************)
Mandatory == {"user_id", "xantaken"}
MetaCols == <<"name", "position", "level">>
MetaSet == {MetaCols[i] : i \in 1..Len(MetaCols)}
AllCols == Mandatory \cup MetaSet \cup {"export_date"}

\* The headers a snapshot file is read with: the exporter's full header, the
\* header without position, the mandatory columns alone, and headers that lack
\* a mandatory column.
Headers ==
    { AllCols,
      AllCols \ {"position"},
      Mandatory,
      AllCols \ {"xantaken"},
      AllCols \ {"user_id"},
      MetaSet }

\* The cells of one column of a file that has the column.
XanCells == {NaN, Text} \cup {Num(n) : n \in 0..MaxXan}
PosCells == {NaN} \cup {Num(p) : p \in 1..MaxPos}
DateCells == {NaN, Text} \cup {Num(d) : d \in 0..MaxDay}
\* The date in a file's name: no YYYY-MM-DD in it, digits of that shape that
\* are no calendar date, or a day.
NameDates == {NaN, Text} \cup {Num(d) : d \in 0..MaxDay}

\* The rows of a file with header cols over the user ids ids. A column the file
\* lacks holds NaN in the model and is never read. name is the member's name,
\* one per user id; level is kept at one value.
FileRows(cols, ids) ==
    LET xans == IF "xantaken" \in cols THEN XanCells ELSE {NaN}
        poss == IF "position" \in cols THEN PosCells ELSE {NaN}
        Row(i, x, p) ==
            [ user_id |-> i, xantaken |-> x,
              meta |-> [c \in MetaSet |->
                            IF c \notin cols THEN NaN
                            ELSE IF c = "position" THEN p
                            ELSE IF c = "name" THEN Num(i)
                            ELSE Num(1)] ]
        Choices == [ids -> xans \X poss]
    IN  { { Row(i, f[i][1], f[i][2]) : i \in ids } : f \in Choices }

\* The files of at most n rows: header and rows. user_id is unique within a
\* file. The export_date column is read once, by the date resolver, and is an
\* input of that step (ExportDates).
Files(n) ==
    UNION { UNION { { [cols |-> cols, rows |-> rs] : rs \in FileRows(cols, ids) } :
                    ids \in {s \in SUBSET UserIds : Cardinality(s) <= n} } :
            cols \in Headers }

\* What df["export_date"].dropna() starts with, for a frame that has the
\* column: nothing (NaN) when every cell is null, else its first cell.
ExportDates(df) == IF df.rows = {} THEN {NaN} ELSE DateCells

(***************************************************************************)
(* xantaken_diff.py                                                        *)
(***************************************************************************)
NoFrame == [cols |-> {}, rows |-> {}]
NoError == [type |-> "none", what |-> {}]
ValueError(missing) == [type |-> "ValueError", what |-> missing]
KeyError(key) == [type |-> "KeyError", what |-> {key}]

\* _load_snapshot, lines 65-71: the mandatory columns the file lacks
MissingColumns(file) == Mandatory \ file.cols

\* _load_snapshot, lines 74-78: user_id as str, xantaken as a number or NaN
LoadSnapshot(file) ==
    [ cols |-> file.cols,
      rows |-> { [ user_id |-> Str(r.user_id),
                   xantaken |-> ToNumeric(r.xantaken),
                   meta |-> r.meta ] : r \in file.rows } ]

\* _parse_date_from_df_or_filename: the export_date column first, then the
\* file's name; a value that does not parse falls through.
ParseDate(df, export_date, name_date) ==
    IF "export_date" \in df.cols /\ ~IsNa(export_date) /\ export_date.t = "num"
    THEN export_date
    ELSE IF name_date.t = "num" THEN name_date
    ELSE NaN

\* The dates a frame resolves to, over the contents of its export_date column
\* and the names of its file
ResolvedDates(df) ==
    { ParseDate(df, e, n) : e \in ExportDates(df), n \in NameDates }

\* StartDate without the swap of line 94: the first file's date
StartDateAsGiven(da, db) == da
\* build_report, lines 92-97
StartDate(da, db) ==
    IF ~IsNa(da) /\ ~IsNa(db) THEN (IF da.v <= db.v THEN da ELSE db) ELSE da
EndDate(da, db) ==
    IF ~IsNa(da) /\ ~IsNa(db) THEN (IF da.v <= db.v THEN db ELSE da) ELSE db
Abs(n) == IF n < 0 THEN -n ELSE n
DaysBetween(da, db) ==
    IF ~IsNa(da) /\ ~IsNa(db) THEN Num(Abs(db.v - da.v)) ELSE NaN

\* build_report, line 100
IsMetaCol(c, dfa, dfb) == c \in dfa.cols \/ c \in dfb.cols
MetaColsOf(dfa, dfb) ==
    LET Keep(c) == IsMetaCol(c, dfa, dfb) IN SelectSeq(MetaCols, Keep)


\* build_report, lines 102-111: the outer merge on user_id of the two frames,
\* xantaken and the metadata columns renamed with _a and _b. A key of both
\* frames gives one row per pair of its rows; a key of one frame gives that
\* frame's rows with NaN in the other frame's columns.
NaNMeta == [c \in MetaSet |-> NaN]
MergedRow(k, ra, rb) ==
    [ user_id |-> k,
      xantaken_a |-> ra.xantaken, meta_a |-> ra.meta,
      xantaken_b |-> rb.xantaken, meta_b |-> rb.meta ]
AbsentRow == [xantaken |-> NaN, meta |-> NaNMeta]
Project(r) == [xantaken |-> r.xantaken, meta |-> r.meta]
\* MergeOuter as a left merge (how="left"): the keys of the first frame only
MergeLeft(dfa, dfb) ==
    LET KeysB == {r.user_id : r \in dfb.rows}
        RowsB(k) == IF k \in KeysB
                    THEN {Project(r) : r \in {x \in dfb.rows : x.user_id = k}}
                    ELSE {AbsentRow}
    IN  UNION { { MergedRow(ra.user_id, Project(ra), rb) : rb \in RowsB(ra.user_id) } :
                ra \in dfa.rows }
MergeOuter(dfa, dfb) ==
    LET KeysA == {r.user_id : r \in dfa.rows}
        KeysB == {r.user_id : r \in dfb.rows}
        RowsA(k) == IF k \in KeysA
                    THEN {Project(r) : r \in {x \in dfa.rows : x.user_id = k}}
                    ELSE {AbsentRow}
        RowsB(k) == IF k \in KeysB
                    THEN {Project(r) : r \in {x \in dfb.rows : x.user_id = k}}
                    ELSE {AbsentRow}
    IN  UNION { { MergedRow(k, ra, rb) : ra \in RowsA(k), rb \in RowsB(k) } :
                k \in KeysA \cup KeysB }

\* build_report, lines 114-121: a metadata column of the report, file2's value
\* first and file1's where file2 has none
CombineMeta(c, row, dfa, dfb) ==
    IF c \in dfb.cols /\ c \in dfa.cols
    THEN (IF IsNa(row.meta_b[c]) THEN row.meta_a[c] ELSE row.meta_b[c])
    ELSE IF c \in dfb.cols THEN row.meta_b[c]
    ELSE IF c \in dfa.cols THEN row.meta_a[c]
    ELSE NaN

\* Diff with its operands exchanged
DiffReversed(xa, xb) ==
    IF IsNa(xa) \/ IsNa(xb) THEN NaN ELSE Num(xa.v - xb.v)

\* build_report, line 123: Series subtraction, NaN where either side is NaN
Diff(xa, xb) ==
    IF IsNa(xa) \/ IsNa(xb) THEN NaN ELSE Num(xb.v - xa.v)

\* build_report, lines 124-125: DataFrame.min / max along the row, which skip
\* NaN by default (skipna=True): NaN only where both values are NaN
RowMin(xa, xb) ==
    IF IsNa(xa) THEN xb
    ELSE IF IsNa(xb) THEN xa
    ELSE IF xa.v <= xb.v THEN xa ELSE xb
RowMax(xa, xb) ==
    IF IsNa(xa) THEN xb
    ELSE IF IsNa(xb) THEN xa
    ELSE IF xa.v >= xb.v THEN xa ELSE xb

\* A quotient n / d of two integers, d > 0, kept exact; NaN has no value.
AvgNaN == [t |-> "nan", n |-> 0, d |-> 1]
Quot(n, d) == [t |-> "num", n |-> n, d |-> d]
\* q < k and q >= k for an integer k; both are false of NaN, as in Python
QuotLess(q, k) == q.t = "num" /\ q.n < k * q.d
QuotGeq(q, k) == q.t = "num" /\ q.n >= k * q.d

\* build_report, lines 127-130
AvgPerDay(days, mn, mx) ==
    IF IsNa(days) \/ days.v = 0 THEN AvgNaN
    ELSE IF IsNa(mn) \/ IsNa(mx) THEN AvgNaN
    ELSE Quot(mx.v - mn.v, days.v)

\* Status with the average compared before the missing values are looked at
StatusAverageFirst(row) ==
    LET a_missing == IsNa(row.xantaken_a)
        b_missing == IsNa(row.xantaken_b)
        avg_xan_taken == row.avg_xantaken_per_day
    IN  IF QuotLess(avg_xan_taken, 1) THEN "Fail"
        ELSE IF QuotGeq(avg_xan_taken, 2) THEN "Exceeds"
        ELSE IF a_missing /\ b_missing THEN "Never Taken Xan!!!"
        ELSE IF a_missing THEN "New Recruit"
        ELSE IF b_missing THEN "Not in Faction and Time of Second Snapshot"
        ELSE "Pass"

\* _status, lines 133-147
Status(row) ==
    LET a_missing == IsNa(row.xantaken_a)
        b_missing == IsNa(row.xantaken_b)
        avg_xan_taken == row.avg_xantaken_per_day
    IN  IF a_missing /\ b_missing THEN "Never Taken Xan!!!"
        ELSE IF a_missing THEN "New Recruit"
        ELSE IF b_missing THEN "Not in Faction and Time of Second Snapshot"
        ELSE IF QuotLess(avg_xan_taken, 1) THEN "Fail"
        ELSE IF QuotGeq(avg_xan_taken, 2) THEN "Exceeds"
        ELSE "Pass"

\* build_report, lines 111-149: the merged frame with every derived column
Derive(row, dfa, dfb, days) ==
    LET d1 == [ user_id |-> row.user_id,
                xantaken_a |-> row.xantaken_a,
                xantaken_b |-> row.xantaken_b,
                meta |-> [c \in MetaSet |-> CombineMeta(c, row, dfa, dfb)],
                diff_xantaken |-> Diff(row.xantaken_a, row.xantaken_b),
                xantaken_min |-> RowMin(row.xantaken_a, row.xantaken_b),
                xantaken_max |-> RowMax(row.xantaken_a, row.xantaken_b) ]
        d2 == [ user_id |-> d1.user_id,
                xantaken_a |-> d1.xantaken_a,
                xantaken_b |-> d1.xantaken_b,
                meta |-> d1.meta,
                diff_xantaken |-> d1.diff_xantaken,
                xantaken_min |-> d1.xantaken_min,
                xantaken_max |-> d1.xantaken_max,
                avg_xantaken_per_day |->
                    AvgPerDay(days, d1.xantaken_min, d1.xantaken_max) ]
    IN  [ user_id |-> d2.user_id,
          xantaken_a |-> d2.xantaken_a,
          xantaken_b |-> d2.xantaken_b,
          meta |-> d2.meta,
          diff_xantaken |-> d2.diff_xantaken,
          xantaken_min |-> d2.xantaken_min,
          xantaken_max |-> d2.xantaken_max,
          avg_xantaken_per_day |-> d2.avg_xantaken_per_day,
          status |-> Status(d2) ]
Merged(dfa, dfb, days) ==
    { Derive(row, dfa, dfb, days) : row \in MergeOuter(dfa, dfb) }

\* build_report, lines 155-160: the report's columns, in order
OutCols(dfa, dfb) ==
    <<"user_id">> \o MetaColsOf(dfa, dfb)
        \o <<"xantaken_a", "xantaken_b", "diff_xantaken",
             "avg_xantaken_per_day", "status">>
ColSet(cols) == {cols[i] : i \in 1..Len(cols)}

\* merged[out_cols]: a row cut to the report's columns (metadata columns of
\* neither file stay NaN and are not among the columns)
ReportRow(r) ==
    [ user_id |-> r.user_id, meta |-> r.meta,
      xantaken_a |-> r.xantaken_a, xantaken_b |-> r.xantaken_b,
      diff_xantaken |-> r.diff_xantaken,
      avg_xantaken_per_day |-> r.avg_xantaken_per_day,
      status |-> r.status ]

\* sort_values, lines 162-166: position ascending, diff_xantaken descending,
\* user_id ascending, NaN last in each key
Before(r, o) ==
    LET pr == r.meta["position"]
        po == o.meta["position"]
        dr == r.diff_xantaken
        do == o.diff_xantaken
    IN  IF pr # po
        THEN ~IsNa(pr) /\ (IsNa(po) \/ pr.v < po.v)
        ELSE IF dr # do
        THEN ~IsNa(dr) /\ (IsNa(do) \/ dr.v > do.v)
        ELSE StrLess(r.user_id, o.user_id)
RECURSIVE SortValues(_)
SortValues(S) ==
    IF S = {} THEN <<>>
    ELSE LET first == CHOOSE r \in S : \A o \in S \ {r} : ~Before(o, r)
         IN  <<first>> \o SortValues(S \ {first})

\* build_report as a function of the two loaded frames and their dates
NoReport == [cols |-> <<>>, rows |-> <<>>]
BuildReport(dfa, dfb, da, db) ==
    LET days == DaysBetween(da, db)
        m == Merged(dfa, dfb, days)
        cols == OutCols(dfa, dfb)
        dates == [ start_date |-> StartDate(da, db),
                   end_date |-> EndDate(da, db),
                   days_between |-> days ]
    IN  IF "position" \notin ColSet(cols)
        THEN [ merged |-> m, report |-> NoReport,
               error |-> KeyError("position"), dates |-> dates ]
        ELSE [ merged |-> m,
               report |-> [ cols |-> cols,
                            rows |-> SortValues({ReportRow(r) : r \in m}) ],
               error |-> NoError, dates |-> dates ]


(***************************************************************************)
(* build_report as steps: the two loads, then the rest of the function.    *)
(***************************************************************************)
FetchIdle ==
    /\ fpc = "idle" /\ call = "none" /\ attempt = 0 /\ backoff = 0
    /\ last_err = "none" /\ resp = "none" /\ requests = 0 /\ tg = "none"
    /\ exc = "none"
    /\ members = <<>> /\ idx = 0 /\ rows = <<>> /\ stat_failed = <<>>
    /\ csv = [written |-> FALSE, rows |-> <<>>] /\ ferror = "none"

DiffIdle ==
    /\ dpc = "idle" /\ df_a = NoFrame /\ df_b = NoFrame
    /\ date_a = NaN /\ date_b = NaN
    /\ start_date = NaN /\ end_date = NaN /\ days_between = NaN
    /\ merged = {} /\ report = NoReport /\ derror = NoError

InitDiff ==
    /\ dpc = "load_a" /\ df_a = NoFrame /\ df_b = NoFrame
    /\ date_a = NaN /\ date_b = NaN
    /\ start_date = NaN /\ end_date = NaN /\ days_between = NaN
    /\ merged = {} /\ report = NoReport /\ derror = NoError
    /\ FetchIdle

\* line 82: df_a = _load_snapshot(path_a)
load_snapshot_a ==
    /\ dpc = "load_a"
    /\ \E file \in Files(MaxRows) :
         IF MissingColumns(file) # {}
         THEN /\ dpc' = "raised"
              /\ derror' = ValueError(MissingColumns(file))
              /\ UNCHANGED df_a
         ELSE /\ dpc' = "load_b"
              /\ df_a' = LoadSnapshot(file)
              /\ UNCHANGED derror
    /\ UNCHANGED <<df_b, date_a, date_b, start_date, end_date, days_between,
                   merged, report, fvars>>

\* line 83: df_b = _load_snapshot(path_b). The two files hold at most MaxRows
\* rows together, and at least one.
load_snapshot_b ==
    /\ dpc = "load_b"
    /\ \E file \in Files(MaxRows - Cardinality(df_a.rows)) :
         /\ Cardinality(df_a.rows) + Cardinality(file.rows) >= 1
         /\ IF MissingColumns(file) # {}
            THEN /\ dpc' = "raised"
                 /\ derror' = ValueError(MissingColumns(file))
                 /\ UNCHANGED df_b
            ELSE /\ dpc' = "build"
                 /\ df_b' = LoadSnapshot(file)
                 /\ UNCHANGED derror
    /\ UNCHANGED <<df_a, date_a, date_b, start_date, end_date, days_between,
                   merged, report, fvars>>

\* lines 85-168: the dates (each from its frame, else from its file's name),
\* the merge, the derived columns, the status and the sorted report
build_report ==
    /\ dpc = "build"
    /\ \E da \in ResolvedDates(df_a), db \in ResolvedDates(df_b) :
         \E res \in {BuildReport(df_a, df_b, da, db)} :
             /\ date_a' = da
             /\ date_b' = db
             /\ start_date' = res.dates.start_date
             /\ end_date' = res.dates.end_date
             /\ days_between' = res.dates.days_between
             /\ merged' = res.merged
             /\ report' = res.report
             /\ derror' = res.error
             /\ dpc' = IF res.error = NoError THEN "returned" ELSE "raised"
    /\ UNCHANGED <<df_a, df_b, fvars>>

NextDiff == load_snapshot_a \/ load_snapshot_b \/ build_report

SpecDiff == InitDiff /\ [][NextDiff]_vars


(***************************************************************************)
(* xans.py                                                                 *)
(***************************************************************************)
\* torn_get's max_retries parameter; no caller passes another value.
max_retries == 5

\* What one session.get can come to, lines 50-95: a network failure
\* (RequestException), HTTP 429, another status outside 200..299, a body that
\* is no JSON, a JSON body with error.code 5, a JSON body with another error,
\* and a payload.
Responses ==
    {"net_fail", "http_429", "http_error", "non_json", "rate_limit",
     "api_error", "ok"}

\* Retryable with every error of the API retried, not code 5 alone
RetryableAnyError(r) == r # "ok"

\* torn_get, lines 52-91: the answers after which the loop sleeps and goes on
\* to its next attempt (the branches that end in continue)
Retryable(r) ==
    r \in {"net_fail", "http_429", "http_error", "non_json", "rate_limit"}

\* Attempts with one pass too many: range(1, max_retries + 2)
AttemptsOneMore == 1..(max_retries + 1)

\* torn_get, line 49: the attempts of the loop, range(1, max_retries + 1)
Attempts == 1..max_retries

\* torn_get, line 97: raise RuntimeError(last_err or "Failed after retries")
AfterRetries(err) == IF err = "none" THEN "failed_after_retries" ELSE err

\* The start of a torn_get call, lines 46-47
torn_get_call(which) ==
    /\ call' = which
    /\ attempt' = 1
    /\ backoff' = 0
    /\ last_err' = "none"
    /\ resp' = "none"
    /\ requests' = 0
    /\ tg' = IF 1 \in Attempts THEN "running" ELSE "raised"
    /\ exc' = IF 1 \in Attempts THEN "none" ELSE AfterRetries("none")

\* The end of a torn_get call: its locals are gone
torn_get_over ==
    /\ call' = "none"
    /\ attempt' = 0
    /\ backoff' = 0
    /\ last_err' = "none"
    /\ resp' = "none"
    /\ requests' = 0
    /\ tg' = "none"
    /\ exc' = "none"

\* One pass of torn_get's loop, lines 49-95, and line 97 when it was the last:
\* one request and what its answer leads to.
torn_get ==
    /\ tg = "running"
    /\ attempt \in Attempts
    /\ \E r \in Responses :
         /\ resp' = r
         /\ requests' = requests + 1
         /\ IF Retryable(r)
            THEN /\ last_err' = r
                 /\ backoff' = backoff + 1
                 /\ attempt' = attempt + 1
                 /\ tg' = IF attempt + 1 \in Attempts THEN "running" ELSE "raised"
                 /\ exc' = IF attempt + 1 \in Attempts
                           THEN exc ELSE AfterRetries(r)
            ELSE IF r = "api_error"
            THEN /\ tg' = "raised"
                 /\ exc' = "torn_api_error"
                 /\ UNCHANGED <<last_err, backoff, attempt>>
            ELSE /\ tg' = "returned"
                 /\ UNCHANGED <<last_err, backoff, attempt, exc>>
    /\ UNCHANGED <<fpc, call, members, idx, rows, stat_failed, csv, ferror,
                   dvars>>


\* The payload of a members answer, lines 103-105: something that is no list,
\* or the list of the members, each with its id (NaN: a member without one).
MemberIds == {NaN} \cup {Num(i) : i \in UserIds}
MemberLists == UNION { [1..n -> MemberIds] : n \in 0..MaxMembers }

\* The payload of a personalstats answer, lines 112-115: a list whose last
\* entry has a number as value (Num), a list whose last entry has none (NaN),
\* or a payload pop() or get() fails on (Text).
StatPayloads == {NaN, Text} \cup {Num(n) : n \in 0..MaxXan}

\* get_member_xantaken, lines 109-115, on a call that raised or returned the
\* payload: the exception it raises ("" when none) and the value it returns
get_member_xantaken(state, raised, payload) ==
    IF state = "raised" THEN [err |-> raised, val |-> NaN]
    ELSE IF payload.t = "text" THEN [err |-> "bad_payload", val |-> NaN]
    ELSE [err |-> "", val |-> payload]

\* TryXantaken without the except clause: the exception leaves main
TryXantakenUncaught(out) ==
    [ xantaken |-> IF out.err = "" THEN out.val ELSE NaN,
      err |-> out.err,
      propagates |-> out.err # "" ]

\* main, lines 152-157: what the try statement makes of the call. Its except
\* clause catches every Exception: xantaken stays None and nothing propagates.
TryXantaken(out) ==
    [ xantaken |-> IF out.err = "" THEN out.val ELSE NaN,
      err |-> out.err,
      propagates |-> FALSE ]

\* main, lines 119-143: the arguments, then the members call
main_start ==
    /\ fpc = "start"
    /\ \E key \in BOOLEAN :
         IF ~key
         THEN /\ fpc' = "exit_2"
              /\ UNCHANGED <<call, attempt, backoff, last_err, resp, requests,
                             tg, exc>>
         ELSE /\ fpc' = "members"
              /\ torn_get_call("members")
    /\ UNCHANGED <<members, idx, rows, stat_failed, csv, ferror, dvars>>

\* get_faction_members, lines 102-106, once torn_get is over; main, line 145
members_return ==
    /\ fpc = "members"
    /\ tg \in {"returned", "raised"}
    /\ IF tg = "raised"
       THEN /\ fpc' = "aborted"
            /\ ferror' = exc
            /\ UNCHANGED <<members, idx>>
       ELSE \E notlist \in BOOLEAN, list \in MemberLists :
              IF notlist
              THEN /\ fpc' = "aborted"
                   /\ ferror' = "unexpected_members_payload"
                   /\ UNCHANGED <<members, idx>>
              ELSE /\ fpc' = "loop"
                   /\ members' = list
                   /\ idx' = 1
                   /\ UNCHANGED ferror
    /\ torn_get_over
    /\ UNCHANGED <<rows, stat_failed, csv, dvars>>

\* main, lines 146-155: the next member and its personalstats call, or the end
\* of the loop
next_member ==
    /\ fpc = "loop"
    /\ IF idx > Len(members)
       THEN /\ fpc' = "write"
            /\ UNCHANGED <<call, attempt, backoff, last_err, resp, requests, tg,
                           exc, ferror>>
       ELSE IF IsNa(members[idx])
       THEN /\ fpc' = "aborted"
            /\ ferror' = "TypeError"
            /\ UNCHANGED <<call, attempt, backoff, last_err, resp, requests, tg,
                           exc>>
       ELSE /\ fpc' = "stat"
            /\ torn_get_call("personalstats")
            /\ UNCHANGED ferror
    /\ UNCHANGED <<members, idx, rows, stat_failed, csv, dvars>>

\* main, lines 155-172, once torn_get is over: the rest of
\* get_member_xantaken, the except clause and the member's row
stat_return ==
    /\ fpc = "stat"
    /\ tg \in {"returned", "raised"}
    /\ \E payload \in (IF tg = "returned" THEN StatPayloads ELSE {NaN}) :
         \E t \in {TryXantaken(get_member_xantaken(tg, exc, payload))} :
            IF t.propagates
            THEN /\ fpc' = "aborted"
                 /\ ferror' = t.err
                 /\ UNCHANGED <<rows, stat_failed, idx>>
            ELSE /\ rows' = Append(rows, [ user_id |-> members[idx].v,
                                           xantaken |-> t.xantaken ])
                 /\ stat_failed' = Append(stat_failed, t.err)
                 /\ idx' = idx + 1
                 /\ fpc' = "loop"
                 /\ UNCHANGED ferror
    /\ torn_get_over
    /\ UNCHANGED <<members, csv, dvars>>

\* main, lines 175-185: the CSV file, one line per row
write_csv ==
    /\ fpc = "write"
    /\ csv' = [written |-> TRUE, rows |-> rows]
    /\ fpc' = "done"
    /\ UNCHANGED <<call, attempt, backoff, last_err, resp, requests, tg, exc,
                   members, idx, rows, stat_failed, ferror, dvars>>

InitFetch ==
    /\ fpc = "start" /\ call = "none" /\ attempt = 0 /\ backoff = 0
    /\ last_err = "none" /\ resp = "none" /\ requests = 0 /\ tg = "none"
    /\ exc = "none"
    /\ members = <<>> /\ idx = 0 /\ rows = <<>> /\ stat_failed = <<>>
    /\ csv = [written |-> FALSE, rows |-> <<>>] /\ ferror = "none"
    /\ DiffIdle

NextFetch ==
    main_start \/ torn_get \/ members_return \/ next_member \/ stat_return
        \/ write_csv

SpecFetch == InitFetch /\ [][NextFetch]_vars

\* main runs to its end: no step of it waits on anything but the answer to a
\* request, and session.get has a timeout.
FairFetch == SpecFetch /\ WF_vars(NextFetch)


(***************************************************************************)
(* Properties of build_report.                                             *)
(***************************************************************************)
Labels ==
    {"Never Taken Xan!!!", "New Recruit",
     "Not in Faction and Time of Second Snapshot", "Fail", "Exceeds", "Pass"}

KeysOf(df) == {r.user_id : r \in df.rows}
UniqueIds(df) ==
    \A r1 \in df.rows, r2 \in df.rows : r1.user_id = r2.user_id => r1 = r2
\* The xantaken a loaded frame holds for a user id, NaN when it has no such row
ValueIn(df, k) ==
    IF k \in KeysOf(df)
    THEN (CHOOSE r \in df.rows : r.user_id = k).xantaken
    ELSE NaN
ReportRows == {report.rows[i] : i \in 1..Len(report.rows)}
RowsOf(rep) == {rep.rows[i] : i \in 1..Len(rep.rows)}
\* build_report got past its two loads and ended
Built == dpc \in {"returned", "raised"} /\ derror.type # "ValueError"

\* C1: with user_id unique within each snapshot, the returned report holds
\* every user_id of either snapshot exactly once and no other user_id.
C1_OuterJoinComplete ==
    (dpc = "returned" /\ UniqueIds(df_a) /\ UniqueIds(df_b)) =>
        /\ \A k \in KeysOf(df_a) \cup KeysOf(df_b) :
             Cardinality({i \in 1..Len(report.rows) :
                             report.rows[i].user_id = k}) = 1
        /\ \A i \in 1..Len(report.rows) :
             report.rows[i].user_id \in KeysOf(df_a) \cup KeysOf(df_b)

\* C1 witness: a report was returned for two snapshots that share a user id.
C1_Witness ==
    /\ dpc = "returned"
    /\ KeysOf(df_a) \cap KeysOf(df_b) # {}
    /\ Len(report.rows) >= 1

\* C2 (as claimed): xantaken_min and xantaken_max are null whenever either
\* xantaken_a or xantaken_b is null, and then avg_xantaken_per_day is null too,
\* also when days_between is a positive whole number.
C2_MinMaxNullPropagating ==
    (dpc = "returned" /\ ~IsNa(days_between) /\ days_between.v > 0) =>
        \A r \in merged :
            (IsNa(r.xantaken_a) \/ IsNa(r.xantaken_b)) =>
                /\ IsNa(r.xantaken_min)
                /\ IsNa(r.xantaken_max)
                /\ r.avg_xantaken_per_day = AvgNaN

\* C3 (as claimed): with both dates resolved, build_report(A, B) and
\* build_report(B, A) return the same dates and the same set of report rows,
\* xantaken_a being in both the value of the earlier snapshot.
C3_SwapSameRows ==
    (dpc = "returned" /\ ~IsNa(date_a) /\ ~IsNa(date_b)) =>
        LET swapped == BuildReport(df_b, df_a, date_b, date_a)
        IN  /\ swapped.dates.start_date = start_date
            /\ swapped.dates.end_date = end_date
            /\ swapped.dates.days_between = days_between
            /\ RowsOf(swapped.report) = ReportRows
            /\ \A r \in ReportRows :
                 /\ date_a.v < date_b.v => r.xantaken_a = ValueIn(df_a, r.user_id)
                 /\ date_b.v < date_a.v => r.xantaken_a = ValueIn(df_b, r.user_id)

\* diff_xantaken with its sign turned, NaN staying NaN
Negated(x) == IF IsNa(x) THEN NaN ELSE Num(0 - x.v)

\* C3 (amended): with both dates resolved, build_report(A, B) and
\* build_report(B, A) return the same start_date (the earlier date), end_date
\* (the later) and days_between (their absolute difference), and reports over
\* the same user_ids with the same avg_xantaken_per_day; xantaken_a is the
\* value of the first argument and xantaken_b that of the second whatever the
\* dates, so the swap exchanges the two and negates diff_xantaken.
C3_SwapExchangesLabels ==
    (dpc = "returned" /\ ~IsNa(date_a) /\ ~IsNa(date_b)) =>
        LET swapped == BuildReport(df_b, df_a, date_b, date_a)
        IN  /\ swapped.error = NoError
            /\ swapped.dates.start_date = start_date
            /\ swapped.dates.end_date = end_date
            /\ swapped.dates.days_between = days_between
            /\ start_date.v <= end_date.v
            /\ {start_date, end_date} = {date_a, date_b}
            /\ days_between = Num(end_date.v - start_date.v)
            /\ {r.user_id : r \in RowsOf(swapped.report)}
                 = {r.user_id : r \in ReportRows}
            /\ \A r \in ReportRows :
                 /\ r.xantaken_a = ValueIn(df_a, r.user_id)
                 /\ r.xantaken_b = ValueIn(df_b, r.user_id)
                 /\ \E s \in RowsOf(swapped.report) :
                      /\ s.user_id = r.user_id
                      /\ s.xantaken_a = r.xantaken_b
                      /\ s.xantaken_b = r.xantaken_a
                      /\ s.diff_xantaken = Negated(r.diff_xantaken)
                      /\ s.avg_xantaken_per_day = r.avg_xantaken_per_day

\* C3 witness: a report returned for a first file dated after the second, with
\* a member whose two values differ.
C3_Witness ==
    /\ dpc = "returned"
    /\ ~IsNa(date_a) /\ ~IsNa(date_b)
    /\ date_b.v < date_a.v
    /\ \E r \in ReportRows :
         ~IsNa(r.diff_xantaken) /\ r.diff_xantaken.v # 0

\* C4: every row gets exactly one of the six labels, by the first rule that
\* matches: both values null, only xantaken_a null, only xantaken_b null,
\* average below 1, average at least 2, else Pass; with both values present and
\* a null average the label is Pass.
C4_StatusPrecedence ==
    /\ \A r \in merged :
         LET a == r.xantaken_a
             b == r.xantaken_b
             q == r.avg_xantaken_per_day
         IN  /\ r.status \in Labels
             /\ (IsNa(a) /\ IsNa(b)) => r.status = "Never Taken Xan!!!"
             /\ (IsNa(a) /\ ~IsNa(b)) => r.status = "New Recruit"
             /\ (~IsNa(a) /\ IsNa(b)) =>
                    r.status = "Not in Faction and Time of Second Snapshot"
             /\ (~IsNa(a) /\ ~IsNa(b) /\ q.t = "num" /\ q.n < q.d) =>
                    r.status = "Fail"
             /\ (~IsNa(a) /\ ~IsNa(b) /\ q.t = "num" /\ q.n >= 2 * q.d) =>
                    r.status = "Exceeds"
             /\ (~IsNa(a) /\ ~IsNa(b) /\ q.t = "num" /\ q.n >= q.d
                    /\ q.n < 2 * q.d) => r.status = "Pass"
             /\ (~IsNa(a) /\ ~IsNa(b) /\ q.t = "nan") => r.status = "Pass"
    /\ dpc = "returned" =>
          {[user_id |-> r.user_id, status |-> r.status] : r \in ReportRows}
            = {[user_id |-> r.user_id, status |-> r.status] : r \in merged}

\* C4 witness: a returned report with a row of two present values and a null
\* average, labelled Pass, for snapshots of the same date.
C4_Witness ==
    /\ dpc = "returned"
    /\ days_between = Num(0)
    /\ \E r \in ReportRows :
         /\ ~IsNa(r.xantaken_a) /\ ~IsNa(r.xantaken_b)
         /\ r.avg_xantaken_per_day = AvgNaN
         /\ r.status = "Pass"

\* C5: diff_xantaken of a row is null exactly when the member's value is null
\* in at least one snapshot, and is otherwise the second snapshot's value
\* minus the first's, negative when the value fell.
C5_DiffExact ==
    \A r \in merged \cup ReportRows :
        LET a == ValueIn(df_a, r.user_id)
            b == ValueIn(df_b, r.user_id)
        IN  /\ IsNa(r.diff_xantaken) <=> (IsNa(a) \/ IsNa(b))
            /\ (~IsNa(a) /\ ~IsNa(b)) => r.diff_xantaken = Num(b.v - a.v)

\* C5 witness: a returned report with a negative diff_xantaken.
C5_Witness ==
    /\ dpc = "returned"
    /\ \E r \in ReportRows : ~IsNa(r.diff_xantaken) /\ r.diff_xantaken.v < 0

\* C6 (as claimed): when days_between is null or 0, avg_xantaken_per_day is
\* null in every row and build_report returns without raising.
C6_NullAverageNoRaise ==
    (Built /\ (IsNa(days_between) \/ days_between.v = 0)) =>
        /\ \A r \in merged : r.avg_xantaken_per_day = AvgNaN
        /\ dpc = "returned"

\* C7 (as claimed): build_report raises only when a mandatory column is
\* missing; with both mandatory columns in both files it returns a report
\* whose columns leave out the metadata columns neither file has.
C7_RaisesOnlyOnMissingMandatory ==
    /\ dpc = "raised" => derror.type = "ValueError"
    /\ dpc = "returned" =>
          \A c \in MetaSet :
              c \in ColSet(report.cols) <=> (c \in df_a.cols \/ c \in df_b.cols)


(***************************************************************************)
(* Properties of xans.main and torn_get.                                   *)
(***************************************************************************)
\* The exceptions a torn_get call ends with: a fatal error the API reported,
\* or the last failure once the attempts are used up.
CallFailures ==
    {"torn_api_error", "failed_after_retries", "net_fail", "http_429",
     "http_error", "non_json", "rate_limit"}

\* C8 (as claimed): a fatal error or used-up retries in any API call, the
\* members call or a member's stat call, aborts the run: no CSV is written and
\* no row is emitted for that member or the ones after it.
C8_AnyCallFailureAborts ==
    /\ ferror \in CallFailures => (fpc = "aborted" /\ ~csv.written)
    /\ \A i \in 1..Len(stat_failed) :
         stat_failed[i] \in CallFailures =>
            (fpc = "aborted" /\ ~csv.written /\ Len(rows) < i)

\* C8 (amended): a fatal error or used-up retries in the members call aborts
\* the run, with no row emitted and no CSV written. In a member's stat call it
\* does not: the exception is caught, the member's row is emitted with an empty
\* xantaken, the loop goes on with the remaining members, and the CSV written
\* at the end holds one row per member.
C8_OnlyMembersFailureAborts ==
    /\ (fpc = "aborted" /\ ferror \in CallFailures) =>
          (idx = 0 /\ rows = <<>> /\ members = <<>>)
    /\ fpc = "aborted" => ferror # "bad_payload"
    /\ fpc # "done" => ~csv.written
    /\ Len(stat_failed) = Len(rows)
    /\ \A i \in 1..Len(stat_failed) :
         stat_failed[i] # "" => IsNa(rows[i].xantaken)
    /\ fpc = "done" =>
          /\ csv = [written |-> TRUE, rows |-> rows]
          /\ Len(rows) = Len(members)
          /\ \A i \in 1..Len(rows) : rows[i].user_id = members[i].v

\* C8 witness: the CSV was written although the first member's stat call had
\* failed, and the second member's row holds a value.
C8_Witness ==
    /\ fpc = "done"
    /\ csv.written
    /\ Len(csv.rows) = 2
    /\ stat_failed[1] \in CallFailures
    /\ IsNa(csv.rows[1].xantaken)
    /\ ~IsNa(csv.rows[2].xantaken)

\* C9 (as claimed): torn_get sends another request only after a network
\* failure, an HTTP 429 or the API's rate-limit error; any other error of the
\* API and a body that is no JSON are raised at once.
C9_RetriesOnlyOnRateLimit ==
    [][ /\ (requests >= 1 /\ requests' = requests + 1) =>
              resp \in {"net_fail", "http_429", "rate_limit"}
        /\ (requests' = requests + 1 /\ resp' \in {"api_error", "non_json"}) =>
              tg' = "raised" ]_vars

\* C9 (amended): torn_get sends another request only after a network failure,
\* an HTTP 429, any other HTTP status outside 200..299, a body that is no JSON
\* or the API's rate-limit error (code 5); any other error the API reports in
\* the body is raised at once, with no further request.
C9_RetriesOnTransportAndRateLimit ==
    [][ /\ (requests >= 1 /\ requests' = requests + 1) =>
              resp \in {"net_fail", "http_429", "http_error", "non_json",
                        "rate_limit"}
        /\ (requests' = requests + 1 /\ resp' = "api_error") =>
              (tg' = "raised" /\ exc' = "torn_api_error")
        /\ resp = "api_error" => requests' <= requests ]_vars

\* C9 witness: a call that was retried after a body that was no JSON and then
\* raised the API's error at once.
C9_Witness ==
    /\ tg = "raised"
    /\ exc = "torn_api_error"
    /\ resp = "api_error"
    /\ last_err = "non_json"
    /\ requests = 2

\* C10: a torn_get call ends after at most max_retries requests. It returns
\* the payload of the first answer that is no failure, or raises; when each of
\* the max_retries answers was a retryable failure it raises the last one.
C10_BoundedRetries ==
    /\ [](/\ requests <= max_retries
          /\ tg = "running" => requests < max_retries
          /\ tg = "returned" => (resp = "ok" /\ backoff = requests - 1)
          /\ (tg = "raised" /\ resp # "api_error") =>
                /\ requests = max_retries
                /\ backoff = max_retries
                /\ resp \in {"net_fail", "http_429", "http_error", "non_json",
                             "rate_limit"}
                /\ exc = resp)
    /\ (tg = "running" ~> tg # "running")

\* C10 witness: a call that raised after max_retries requests, the last of
\* them answered with HTTP 429.
C10_Witness ==
    /\ tg = "raised"
    /\ requests = max_retries
    /\ exc = "http_429"

====
